---------------------------- MODULE Spec2Model ----------------------------
(***************************************************************************)
(* Model of IMAGE_COMPRESSION.py: the percentage resizer (resize_image),   *)
(* the export router (export_image), the encoder front end (_img_to_bytes) *)
(* and the binary search over JPEG quality (_binary_search_quality).       *)
(*                                                                         *)
(* Strings are sequences of one-character strings, so that split(".") and  *)
(* lower()/upper() are computed and not assumed.  The imaging library is   *)
(* the environment: the number of bytes it produces for an image at a      *)
(* given quality is an input, drawn from a family of size profiles.        *)
(***************************************************************************)
EXTENDS Integers, Sequences, FiniteSets

VARIABLES
    pc,              \* "idle", "search_entry", "search_start", "search_loop",
                     \* "returned"
    call,            \* the function whose body is executing
    filename,        \* export_image: argument
    target_size_kb,  \* export_image: argument
    fmt,             \* _binary_search_quality: argument
    target_kb,       \* _binary_search_quality: argument
    profile,         \* bytes the JPEG encoder yields for the image, per quality
    best,            \* _binary_search_quality: local
    res,             \* _binary_search_quality: local
    low,             \* _binary_search_quality: local
    high,            \* _binary_search_quality: local
    iters,           \* history: iterations of the while loop executed
    encodes,         \* history: every _img_to_bytes result of the call, in order
    data,            \* the bytes returned
    images,          \* heap of image objects: reference -> [width, height]
    image,           \* resize_image: argument (a reference, 0 = none)
    out_img,         \* resize_image: returned reference (0 = none)
    percent_change   \* resize_image: argument

vars == <<pc, call, filename, target_size_kb, fmt, target_kb, profile, best,
          res, low, high, iters, encodes, data, images, image, out_img,
          percent_change>>

searchVars == <<fmt, target_kb, profile, best, res, low, high, iters>>
exportVars == <<filename, target_size_kb>>
resizeVars == <<images, image, out_img, percent_change>>

-----------------------------------------------------------------------------
(* Program constants *)

q_low == 5
q_high == 95
DefaultQuality == 85
BytesPerKB == 1024
MinPercent == -80
MaxPercent == 200

(* Bounds of the model *)

MaxTargetKB == 1
MaxSizeSteps == 3
MaxBump == 1
MaxParts == 2
MaxDim == 5

-----------------------------------------------------------------------------
(* Strings *)

Max(S) == CHOOSE x \in S : \A y \in S : y <= x

LowerChar(c) ==
    CASE c = "J" -> "j"
      [] c = "P" -> "p"
      [] c = "G" -> "g"
      [] c = "N" -> "n"
      [] c = "E" -> "e"
      [] OTHER -> c

UpperChar(c) ==
    CASE c = "j" -> "J"
      [] c = "p" -> "P"
      [] c = "g" -> "G"
      [] c = "n" -> "N"
      [] c = "e" -> "E"
      [] OTHER -> c

Lower_NoFold(s) == s

Lower(s) == [i \in 1..Len(s) |-> LowerChar(s[i])]

Upper(s) == [i \in 1..Len(s) |-> UpperChar(s[i])]

Dots(s) == {i \in 1..Len(s) : s[i] = "."}

\* s.split(".")[-1]
LastPart(s) ==
    IF Dots(s) = {} THEN s ELSE SubSeq(s, Max(Dots(s)) + 1, Len(s))

\* ext = filename.split(".")[-1].lower() if "." in filename else "jpg"
Ext(name) ==
    IF Dots(name) # {} THEN Lower(LastPart(name)) ELSE <<"j", "p", "g">>

-----------------------------------------------------------------------------
(* Encoder *)

None == [fmt |-> "none", quality |-> 0, optimize |-> FALSE, len |-> 0]

\* _img_to_bytes(img, fmt, quality, optimize); n is the number of bytes the
\* library writes.  The record stands for the byte string: what was encoded
\* and how long it is.
ImgToBytes(f, quality, optimize, n) ==
    IF Upper(f) \in {<<"J", "P", "G">>, <<"J", "P", "E", "G">>}
    THEN [fmt |-> "JPEG", quality |-> quality, optimize |-> optimize, len |-> n]
    ELSE IF Upper(f) = <<"P", "N", "G">>
    THEN [fmt |-> "PNG", quality |-> 0, optimize |-> optimize, len |-> n]
    ELSE [fmt |-> "other", quality |-> 0, optimize |-> FALSE, len |-> n]

\* Byte counts the library can produce: half-kilobyte steps from 1 KB up.
Sizes == {(BytesPerKB \div 2) * (k + 1) : k \in 1..MaxSizeSteps}

\* Size profiles: s1 below quality b, s2 on the w qualities from b, s3 above.
Profiles ==
    {p \in [b : q_low..(q_high + 1), w : 0..MaxBump,
            s1 : Sizes, s2 : Sizes, s3 : Sizes] :
        /\ (p.w = 0 => p.s2 = p.s3)
        /\ (p.b = q_low => p.s1 = p.s2)}

NoProfile == [b |-> 0, w |-> 0, s1 |-> 0, s2 |-> 0, s3 |-> 0]

JpegLen(p, q) ==
    IF q < p.b THEN p.s1 ELSE IF q < p.b + p.w THEN p.s2 ELSE p.s3


-----------------------------------------------------------------------------
(* Inputs *)

Str_jpg == <<"j", "p", "g">>
Str_jpeg == <<"j", "p", "e", "g">>
Str_png == <<"p", "n", "g">>
Str_JPEG == <<"J", "P", "E", "G">>
Str_PNG == <<"P", "N", "G">>

\* Dot-separated pieces a file name is made of.
Pieces ==
    {<<>>, <<"a">>, Str_jpg, Str_jpeg, Str_png, <<"P", "n", "g">>,
     <<"J", "P", "G">>, <<"g", "i", "f">>}

RECURSIVE NamesOf(_)
NamesOf(n) ==
    IF n = 1 THEN Pieces
    ELSE {a \o <<".">> \o b : a \in NamesOf(n - 1), b \in Pieces}

Filenames == UNION {NamesOf(n) : n \in 1..MaxParts}

\* 0 switches the target off; the functions take any integer.
Targets == (0 - 1)..MaxTargetKB

Formats == {Str_JPEG, Str_PNG, Str_png}

Percents == MinPercent..MaxPercent

Dims == 1..MaxDim

-----------------------------------------------------------------------------
(* _binary_search_quality *)

MeetsTarget_Strict(d, t) == d.len < t * BytesPerKB

\* len(data) / 1024 <= target_kb
MeetsTarget(d, t) == d.len <= t * BytesPerKB

SearchInterval_LowBelow == <<q_low - 1, q_high>>

\* low, high = q_low, q_high
SearchInterval == <<q_low, q_high>>

\* mid = (low + high) // 2
Mid(l, h) == (l + h) \div 2

LowAfterPass_Stay(m) == m

\* low = mid + 1
LowAfterPass(m) == m + 1

HighAfterFail_Skip(m) == m - 2

\* high = mid - 1
HighAfterFail(m) == m - 1

SearchReturn_Swapped(r, b) == IF r # None THEN b ELSE r

SearchReturn_Last(r, b) == IF r # None THEN r ELSE encodes[Len(encodes)]

\* return res if res is not None else best
SearchReturn(r, b) == IF r # None THEN r ELSE b

Init ==
    /\ pc = "idle"
    /\ call = "none"
    /\ filename = <<>>
    /\ target_size_kb = 0
    /\ fmt = <<>>
    /\ target_kb = 0
    /\ profile = NoProfile
    /\ best = None
    /\ res = None
    /\ low = 0
    /\ high = 0
    /\ iters = 0
    /\ encodes = <<>>
    /\ data = None
    /\ images = <<>>
    /\ image = 0
    /\ out_img = 0
    /\ percent_change = 0

\* A caller invokes _binary_search_quality(img, f, t) with the default bounds.
CallSearch(f, t) ==
    /\ pc = "idle"
    /\ pc' = "search_entry"
    /\ call' = "caller"
    /\ fmt' = f
    /\ target_kb' = t
    /\ UNCHANGED <<filename, target_size_kb, profile, best, res, low, high,
                   iters, encodes, data>>
    /\ UNCHANGED resizeVars

\* Control enters _binary_search_quality.  export_image returns the callee's
\* result as it is, so its own arguments are not read again from here on.
SearchEnter ==
    /\ pc = "search_entry"
    /\ pc' = "search_start"
    /\ call' = "_binary_search_quality"
    /\ filename' = <<>>
    /\ target_size_kb' = 0
    /\ UNCHANGED <<encodes, data>>
    /\ UNCHANGED searchVars
    /\ UNCHANGED resizeVars

\* Lines 38-47: the PNG branch, the encode at q_high and the early return.
SearchEntry ==
    /\ pc = "search_start"
    /\ UNCHANGED <<call, filename, target_size_kb>>
    /\ IF Upper(fmt) \in {Str_PNG}
       THEN \E n \in Sizes :
              LET d == ImgToBytes(Str_PNG, DefaultQuality, TRUE, n) IN
                /\ data' = d
                /\ encodes' = Append(encodes, d)
                /\ pc' = "returned"
                /\ UNCHANGED <<profile, best, res, low, high>>
       ELSE \E p \in Profiles :
              LET b == ImgToBytes(Str_JPEG, q_high, TRUE, JpegLen(p, q_high)) IN
                /\ profile' = p
                /\ best' = b
                /\ encodes' = Append(encodes, b)
                /\ IF MeetsTarget(b, target_kb)
                   THEN /\ data' = b
                        /\ pc' = "returned"
                        /\ UNCHANGED <<res, low, high>>
                   ELSE /\ res' = None
                        /\ low' = SearchInterval[1]
                        /\ high' = SearchInterval[2]
                        /\ pc' = "search_loop"
                        /\ UNCHANGED data
    /\ UNCHANGED <<fmt, target_kb, iters>>
    /\ UNCHANGED resizeVars

\* Lines 48-56: one iteration of the while loop.
SearchIterate ==
    /\ pc = "search_loop"
    /\ low <= high
    /\ LET mid == Mid(low, high)
           d == ImgToBytes(Str_JPEG, mid, TRUE, JpegLen(profile, mid))
       IN /\ encodes' = Append(encodes, d)
          /\ iters' = iters + 1
          /\ IF MeetsTarget(d, target_kb)
             THEN /\ res' = d
                  /\ low' = LowAfterPass(mid)
                  /\ UNCHANGED high
             ELSE /\ high' = HighAfterFail(mid)
                  /\ UNCHANGED <<res, low>>
    /\ UNCHANGED <<pc, call, fmt, target_kb, profile, best, data>>
    /\ UNCHANGED exportVars
    /\ UNCHANGED resizeVars

\* Line 57: the loop condition fails and the function returns.
SearchExit ==
    /\ pc = "search_loop"
    /\ ~(low <= high)
    /\ data' = SearchReturn(res, best)
    /\ pc' = "returned"
    /\ UNCHANGED <<call, encodes>>
    /\ UNCHANGED searchVars
    /\ UNCHANGED exportVars
    /\ UNCHANGED resizeVars

-----------------------------------------------------------------------------
(* export_image *)

\* return _binary_search_quality(img, "JPEG", target_size_kb)
ExportSearch(t) ==
    /\ pc' = "search_entry"
    /\ fmt' = Str_JPEG
    /\ target_kb' = t
    /\ UNCHANGED <<encodes, data>>

\* return _img_to_bytes(img, f, quality=q): one encode, optimize defaulting
\* to True.
ExportEncode(f, q) ==
    \E n \in Sizes :
      LET d == ImgToBytes(f, q, TRUE, n) IN
        /\ data' = d
        /\ encodes' = Append(encodes, d)
        /\ pc' = "returned"
        /\ UNCHANGED <<fmt, target_kb>>

\* if target_size_kb and target_size_kb > 0
WantsTarget(t) == t # 0 /\ t > 0

\* Lines 87-99.
ExportImage(name, t) ==
    /\ pc = "idle"
    /\ call' = "export_image"
    /\ filename' = name
    /\ target_size_kb' = t
    /\ LET ext == Ext(name) IN
         IF ext \in {Str_jpg, Str_jpeg}
         THEN IF WantsTarget(t)
              THEN ExportSearch(t)
              ELSE ExportEncode(Str_JPEG, DefaultQuality)
         ELSE IF ext = Str_png
         THEN ExportEncode(Str_PNG, DefaultQuality)
         ELSE IF WantsTarget(t)
              THEN ExportSearch(t)
              ELSE ExportEncode(Str_JPEG, DefaultQuality)
    /\ UNCHANGED <<profile, best, res, low, high, iters>>
    /\ UNCHANGED resizeVars

-----------------------------------------------------------------------------
(* resize_image *)

\* image.width * factor with factor = 1.0 + percent_change / 100.0, in
\* hundredths.
Scaled(dim, pct) == dim * (100 + pct)

\* int(round(x)) for x = h / 100.  Away from a tie the nearest integer; at a
\* tie the floating-point product lands on either side of it, so both
\* neighbours are possible.
Round(h) ==
    LET fl == h \div 100
        rem == h % 100
    IN IF rem < 50 THEN {fl}
       ELSE IF rem > 50 THEN {fl + 1}
       ELSE {fl, fl + 1}

ClampDim_None(n) == n

\* max(1, n)
ClampDim(n) == IF n >= 1 THEN n ELSE 1

\* Lines 66-79.  The caller passes an image of w x h pixels, held at
\* reference 1; Image.resize allocates its result at the next reference.
ResizeImage(w, h, pct) ==
    /\ pc = "idle"
    /\ call' = "resize_image"
    /\ percent_change' = pct
    /\ image' = 1
    /\ IF pct # 0
       THEN \E nw \in Round(Scaled(w, pct)), nh \in Round(Scaled(h, pct)) :
              /\ images' = <<[width |-> w, height |-> h],
                             [width |-> ClampDim(nw), height |-> ClampDim(nh)]>>
              /\ out_img' = 2
       ELSE /\ images' = <<[width |-> w, height |-> h]>>
            /\ out_img' = 1
    /\ pc' = "returned"
    /\ UNCHANGED <<encodes, data>>
    /\ UNCHANGED searchVars
    /\ UNCHANGED exportVars

-----------------------------------------------------------------------------

\* The operations a caller can start; inputs are drawn once the program is
\* idle.
StartSearch == pc = "idle" /\ \E f \in Formats, t \in Targets : CallSearch(f, t)

StartExport ==
    pc = "idle" /\ \E name \in Filenames, t \in Targets : ExportImage(name, t)

StartResize ==
    pc = "idle" /\ \E w \in Dims, h \in Dims, pct \in Percents :
                      ResizeImage(w, h, pct)

Next ==
    \/ StartSearch
    \/ SearchEnter
    \/ SearchEntry
    \/ SearchIterate
    \/ SearchExit
    \/ StartExport
    \/ StartResize

Spec == Init /\ [][Next]_vars

-----------------------------------------------------------------------------
(* Vocabulary of the properties *)

Qualities == q_low..q_high

Limit == target_kb * BytesPerKB

\* The JPEG encoding of the image at quality q.
Enc(q) ==
    [fmt |-> "JPEG", quality |-> q, optimize |-> TRUE,
     len |-> JpegLen(profile, q)]

FitsAt(q) == JpegLen(profile, q) <= Limit

Fitting == {q \in Qualities : FitsAt(q)}

\* Encoded size never decreases as quality increases.
Monotone ==
    \A q \in q_low..(q_high - 1) : JpegLen(profile, q) <= JpegLen(profile, q + 1)

\* _binary_search_quality is on its JPEG path, past the first encode.
InSearch ==
    /\ call = "_binary_search_quality"
    /\ Upper(fmt) # Str_PNG
    /\ pc \in {"search_loop", "returned"}

SearchReturned == InSearch /\ pc = "returned"

\* The places in the log of the encodings made inside the loop.
LoopEncodes == 2..Len(encodes)

RECURSIVE Pow2(_)
Pow2(k) == IF k = 0 THEN 1 ELSE 2 * Pow2(k - 1)

\* ceil(log2(n)) for n >= 1
CeilLog2(n) == CHOOSE k \in 0..n : Pow2(k) >= n /\ \A j \in 0..(k - 1) : Pow2(j) < n

-----------------------------------------------------------------------------
(* C1: with sizes non-decreasing in quality, when the q_high encoding      *)
(* exceeds the target and some quality meets it, the search returns the    *)
(* encoding at the greatest quality q that meets the target, so            *)
(* size(q) <= target < size(q+1).                                          *)
C1_HighestFittingQuality ==
    (SearchReturned /\ Monotone /\ ~FitsAt(q_high) /\ Fitting # {}) =>
        LET g == Max(Fitting) IN
          /\ data = Enc(g)
          /\ data.len <= Limit
          /\ JpegLen(profile, g + 1) > Limit

C1_Witness ==
    /\ SearchReturned /\ Monotone /\ ~FitsAt(q_high)
    /\ Max(Fitting \cup {0}) = q_high - 1
    /\ data.quality = q_high - 1
    /\ iters = 7

-----------------------------------------------------------------------------
(* C2, as stated: for any size-per-quality function, whenever some quality *)
(* in [q_low, q_high] meets the target, the returned bytes meet it.        *)
C2_Original ==
    (SearchReturned /\ Fitting # {}) => data.len <= Limit

(* C2, amended: when sizes are non-decreasing in quality and some quality  *)
(* in [q_low, q_high] meets the target, the returned bytes meet it.        *)
C2_MeetsTargetWhenMonotone ==
    (SearchReturned /\ Monotone /\ Fitting # {}) => data.len <= Limit

C2_Witness ==
    /\ SearchReturned /\ Monotone
    /\ Fitting = {q_low}
    /\ data.len <= Limit
    /\ iters > 0

-----------------------------------------------------------------------------
(* C3, as stated: when no quality in [q_low, q_high] meets the target, the *)
(* search returns the encoding at quality q_low, whose size exceeds the    *)
(* target.                                                                 *)
C3_Original ==
    (SearchReturned /\ Fitting = {}) =>
        /\ data = Enc(q_low)
        /\ data.len > Limit

(* C3, amended: when no quality in [q_low, q_high] meets the target, the   *)
(* search returns the initial encoding at quality q_high, whose size       *)
(* exceeds the target.                                                     *)
C3_FallbackIsHighestQuality ==
    (SearchReturned /\ Fitting = {}) =>
        /\ data = Enc(q_high)
        /\ data = encodes[1]
        /\ data.len > Limit

C3_Witness ==
    /\ SearchReturned /\ Fitting = {}
    /\ target_kb > 0
    /\ encodes[Len(encodes)] = Enc(q_low)
    /\ JpegLen(profile, q_low) < JpegLen(profile, q_high)
    /\ data.quality = q_high

-----------------------------------------------------------------------------
(* C4: when the encoding at q_high meets the target, the search returns    *)
(* that encoding after exactly one encode and no iteration of the loop.    *)
C4_EarlyReturn ==
    (InSearch /\ FitsAt(q_high)) =>
        /\ pc = "returned"
        /\ data = Enc(q_high)
        /\ Len(encodes) = 1
        /\ iters = 0

C4_Witness ==
    /\ SearchReturned
    /\ JpegLen(profile, q_high) = Limit
    /\ data.quality = q_high
    /\ Len(encodes) = 1

-----------------------------------------------------------------------------
(* C5, as stated: the loop ends after at most 5 iterations, one encode per *)
(* iteration.                                                              *)
C5_Original ==
    InSearch => (iters <= 5 /\ Len(encodes) = 1 + iters)

(* C5, amended: the loop ends after at most ceil(log2(q_high - q_low + 1)) *)
(* iterations, which is 7, one encode per iteration; each iteration at     *)
(* least halves the interval left to search, so low > high is reached.     *)
C5_AtMostSevenIterations ==
    InSearch =>
        /\ iters <= CeilLog2(q_high - q_low + 1)
        /\ CeilLog2(q_high - q_low + 1) = 7
        /\ Len(encodes) = 1 + iters
        /\ (pc = "search_loop" =>
               (high - low + 1) * Pow2(iters) <= q_high - q_low + 1)

C5_Witness ==
    /\ SearchReturned
    /\ iters = 7
    /\ low > high

-----------------------------------------------------------------------------
(* C6: export_image starts the quality search exactly when the file name   *)
(* does not end in ".png" (in any letter case) and the target is positive; *)
(* otherwise it returns after exactly one encode: an optimized PNG encode  *)
(* when the name ends in ".png", whatever the target, and else a JPEG      *)
(* encode at quality 85.                                                   *)
EndsInPng(name) ==
    /\ Len(name) >= 4
    /\ name[Len(name) - 3] = "."
    /\ LowerChar(name[Len(name) - 2]) = "p"
    /\ LowerChar(name[Len(name) - 1]) = "n"
    /\ LowerChar(name[Len(name)]) = "g"

C6_ExportRouting ==
    (call = "export_image") =>
        /\ pc \in {"search_entry", "returned"}
        /\ pc = "search_entry" <=>
               (~EndsInPng(filename) /\ target_size_kb > 0)
        /\ pc = "search_entry" =>
               (fmt = Str_JPEG /\ target_kb = target_size_kb /\ encodes = <<>>)
        /\ pc = "returned" =>
               /\ Len(encodes) = 1
               /\ data = encodes[1]
               /\ IF EndsInPng(filename)
                  THEN data.fmt = "PNG" /\ data.optimize
                  ELSE data.fmt = "JPEG" /\ data.quality = DefaultQuality

C6_Witness ==
    /\ call = "export_image"
    /\ pc = "returned"
    /\ filename = <<"a", ".", "P", "n", "g">>
    /\ target_size_kb > 0
    /\ data.fmt = "PNG"

-----------------------------------------------------------------------------
(* C7: for an image of at least 1 x 1 and a percentage in -80..200,        *)
(* resize_image returns an image whose width and height are at least 1:    *)
(* each is the theoretical dimension rounded to a nearest integer, 1 when  *)
(* the theoretical dimension is below 1, and the input's own when the      *)
(* percentage is 0.                                                        *)
Abs(n) == IF n >= 0 THEN n ELSE 0 - n

DimOK(old, new) ==
    LET theory == old * (100 + percent_change) IN
      /\ new >= 1
      /\ (percent_change = 0 => new = old)
      /\ (theory < 100 => new = 1)
      /\ (theory >= 100 => Abs(100 * new - theory) <= 50)

C7_ResizedDimensions ==
    (call = "resize_image" /\ pc = "returned") =>
        /\ DimOK(images[image].width, images[out_img].width)
        /\ DimOK(images[image].height, images[out_img].height)

C7_Witness ==
    /\ call = "resize_image" /\ pc = "returned"
    /\ percent_change = MinPercent
    /\ images[image].width = 2
    /\ images[out_img].width = 1
    /\ images[image].height = MaxDim
    /\ images[out_img].height = 1

-----------------------------------------------------------------------------
(* C8: for every percentage, 0 included, resize_image returns a newly       *)
(* allocated image object, distinct from its input.                        *)
C8_AlwaysNewImage ==
    (call = "resize_image" /\ pc = "returned") =>
        /\ out_img \in DOMAIN images
        /\ out_img # image

-----------------------------------------------------------------------------
(* C9, as stated: every quality encoded inside the loop is at least q_low  *)
(* and below q_high.                                                       *)
C9_Original ==
    InSearch =>
        \A i \in LoopEncodes :
            q_low <= encodes[i].quality /\ encodes[i].quality < q_high

(* C9, amended: every quality encoded inside the loop is at least q_low    *)
(* and at most q_high; q_high is encoded again in the loop exactly when    *)
(* the iteration before it found that quality q_high - 1 meets the target. *)
C9_MidWithinBounds ==
    InSearch =>
        \A i \in LoopEncodes :
            /\ q_low <= encodes[i].quality
            /\ encodes[i].quality <= q_high
            /\ (encodes[i].quality = q_high =>
                   /\ i > 2
                   /\ encodes[i - 1] = Enc(q_high - 1)
                   /\ FitsAt(q_high - 1))
            /\ ((encodes[i] = Enc(q_high - 1) /\ FitsAt(q_high - 1)) =>
                   IF i < Len(encodes)
                   THEN encodes[i + 1].quality = q_high
                   ELSE pc = "search_loop")

C9_Witness ==
    /\ SearchReturned
    /\ \E i \in LoopEncodes : encodes[i].quality = q_high

-----------------------------------------------------------------------------
(* C10, as stated: the returned bytes exceed the target only if every      *)
(* encoding of the call exceeded it, and they are then the initial q_high  *)
(* encoding; otherwise they are the last loop encoding that met the        *)
(* target.                                                                 *)
Passing == {i \in LoopEncodes : encodes[i].len <= Limit}

C10_Original ==
    SearchReturned =>
        IF data.len > Limit
        THEN /\ \A i \in 1..Len(encodes) : encodes[i].len > Limit
             /\ data = encodes[1]
        ELSE /\ Passing # {}
             /\ data = encodes[Max(Passing)]

(* C10, amended: the returned bytes exceed the target only if every        *)
(* encoding of the call exceeded it, and they are then the initial q_high  *)
(* encoding; otherwise they are the initial q_high encoding when that one  *)
(* met the target (no loop encoding exists then), and else the last loop   *)
(* encoding that met the target.                                           *)
C10_ReturnedEncoding ==
    SearchReturned =>
        IF data.len > Limit
        THEN /\ \A i \in 1..Len(encodes) : encodes[i].len > Limit
             /\ data = encodes[1]
        ELSE IF encodes[1].len <= Limit
        THEN /\ data = encodes[1]
             /\ LoopEncodes = {}
        ELSE /\ Passing # {}
             /\ data = encodes[Max(Passing)]

C10_Witness ==
    /\ SearchReturned
    /\ ~Monotone
    /\ data.len <= Limit
    /\ Cardinality(Passing) > 1
    /\ Max(Passing) < Len(encodes)

=============================================================================
